---- MODULE Spec2Model ----
(***************************************************************************)
(* Debug adapter client (crates/dap/src/client.rs): request/response       *)
(* correlation, the forwarding and dispatch loops, the capability snapshot  *)
(* and the thread-state cache.  The Transport (crate::transport) is not    *)
(* part of the sources at hand; its read loop, write loop, pending-request *)
(* table and teardown are modelled from the design document.               *)
(***************************************************************************)
EXTENDS Integers, Sequences, FiniteSets, TLC

\* ------------------------------------------------------------------ bounds
\* calls of request made during one client's life
MaxCalls == 2
\* responses the adapter puts on the wire
MaxResponses == 2
\* events and reverse requests the adapter puts on the wire
MaxForwards == 3
\* thread ids the host and the adapter talk about
MaxThreads == 2
MaxIllFormed == 1
MaxTasks == 2

Calls == 1..MaxCalls
Seqs == 0..(MaxCalls + 1)
ThreadIds == 1..MaxThreads
Tasks == 1..MaxTasks

\* ------------------------------------------------------------ value spaces
Commands == {"initialize", "disconnect", "next"}
Bodies == {"absent", "empty_object", "step_back_object"}
ThreadStatus == {"Running", "Stopped", "Exited", "Ended"}

NoResult == [kind |-> "none", value |-> "none"]
NoResponse == [request_seq |-> 0, success |-> FALSE]
Ok(v) == [kind |-> "ok", value |-> v]
Err(w) == [kind |-> "err", value |-> w]

\* Option<Capabilities>::None, Capabilities::default(), and a non-default value
NoCaps == "None"
DefaultCaps == "default_caps"
StepBackCaps == "step_back_caps"

VARIABLES
    request_count,    \* AtomicU64 of the client
    pc,               \* per call of request: idle, issued, waiting, done
    call_cmd,         \* R::COMMAND of the call
    call_args,        \* what the caller gave and the arguments serialized from it
    call_seq,         \* the seq the call got from next_request_id
    result,           \* what request returned to the caller
    got,              \* history: the response the call took from its channel
    issued,           \* history: the values next_request_id handed out
    reply_buf,        \* callback channel of the call (bounded(1))
    begun_closed,     \* history: the transport was closed when the call began
    begun_after_stop, \* history: a stop() had returned when the call began
    server_tx,        \* outbound channel client -> Transport write loop
    written,          \* seqs the write loop has put on the wire
    pending,          \* Transport's pending-request table: seq -> reply channel
    resolved,         \* history: per seq, responses routed to a reply channel
    rejected,         \* history: seqs for which a repeated response was dropped
    closed,           \* the Transport has been torn down
    wire,             \* history: kinds of the messages the adapter sent
    server_rx,        \* Transport's public inbound channel
    client_q,         \* client_tx / client_rx queue between the two loops
    recv_loop,        \* handle_recv: running, ended, panicked
    events_loop,      \* handle_events: running, ended, panicked
    handled,          \* history: ids passed to event_handler, in call order
    logged,           \* history: ids logged as "Invalid Event"
    app_alive,        \* the AppContext behind cx.update still exists
    capabilities,     \* Mutex<Option<Capabilities>>
    caps_writes,      \* history: number of stores into capabilities
    thread_states,    \* Mutex<HashMap<u64, ThreadState>>
    faulted,          \* the last accessor call panicked
    last,             \* history: the operation the last step performed
    returned,         \* per call: what the method around request returned
    connection,       \* config.connection given to new
    new_pc,           \* position of the call of new
    port,             \* the local `port` of create_tcp_client
    process,          \* the adapter process: none, running, killed, exited
    handle,           \* where the Child handle is: none, local, client, dropped
    new_result,       \* what new returned: pending, ok, an error, panic
    transport_started,\* Transport::start has run
    units_spawned,    \* background units spawned by handle_transport
    guard,            \* task holding the lock of thread_states, 0 when free
    calling,          \* per task: the call it is inside, waiting in lock()
    snap,             \* per task: the ThreadState thread_state_by_id returned
    bytes,            \* git: the byte pair handed to FileStatus::from_bytes
    file_status       \* git: what from_bytes returned for it

reqVars == <<request_count, pc, call_cmd, call_args, call_seq, result, got, issued, reply_buf,
             begun_closed, begun_after_stop, server_tx, written, pending,
             resolved, rejected, capabilities, caps_writes>>
evVars == <<wire, server_rx, client_q, recv_loop, events_loop, handled,
            logged, app_alive>>
lockVars == <<guard, calling, snap>>
thVars == <<thread_states, faulted, lockVars>>
ctorVars == <<connection, new_pc, port, process, handle, new_result,
              transport_started, units_spawned>>
gitVars == <<bytes, file_status>>
vars == <<reqVars, evVars, thVars, closed, last, returned, ctorVars, gitVars>>

\* Option<Value> as launch and attach take it
NoneValue == [some |-> FALSE, value |-> "none"]
Some(v) == [some |-> TRUE, value |-> v]

\* no arguments serialized for the call
NoArguments == [given |-> NoneValue, arguments |-> "none"]

\* the typed arguments of a command other than launch and attach
TypedArguments == [given |-> NoneValue, arguments |-> "typed"]

\* the place of a ThreadState where no accessor has returned one
NoThreadState ==
    [status |-> "none", stack_frames |-> <<>>, scopes |-> "none",
     variables |-> "none", current_stack_frame_id |-> 0]

\* the task is inside no call on the cache
NoCall == [op |-> "none", id |-> 0, status |-> "none"]

NoOp == [op |-> "other", id |-> 0, known |-> FALSE, status |-> "none",
         ret |-> NoThreadState]

\* --------------------------------------------------------- pure functions
\* a response without a body refused for every command
Deserialize_body_required(cmd, body) ==
    IF body = "absent"
    THEN Err("deserialize")
    ELSE IF cmd = "initialize"
    THEN IF body = "empty_object" THEN Ok(DefaultCaps) ELSE Ok(StepBackCaps)
    ELSE Err("deserialize")

\* serde_json::from_value::<R::Response>(body.unwrap_or_default())
Deserialize(cmd, body) ==
    IF cmd = "initialize"
    THEN CASE body = "absent" -> Err("deserialize")
           [] body = "empty_object" -> Ok(DefaultCaps)
           [] OTHER -> Ok(StepBackCaps)
    ELSE IF body = "absent" THEN Ok("unit") ELSE Err("deserialize")

\* the two arms of the match on response.success swapped
ResponseResult_swapped(cmd, response) ==
    IF response.success
    THEN Err("request_failed")
    ELSE Deserialize(cmd, response.body)

\* the body deserialized whatever the success flag says
ResponseResult_unflagged(cmd, response) ==
    Deserialize(cmd, response.body)

\* match response.success { true => Ok(from_value(..)?), false => Err(..) }
ResponseResult(cmd, response) ==
    IF response.success
    THEN Deserialize(cmd, response.body)
    ELSE Err("request_failed")

\* the Option handed out as it is, without unwrap_or_default
capabilities_get_raw == capabilities

\* self.capabilities.lock().clone().unwrap_or_default()
capabilities_get ==
    IF capabilities = NoCaps THEN DefaultCaps ELSE capabilities

\* a sender of the call's reply channel is still alive: the call has not yet
\* moved it into the payload it sends, or the pending table holds it
SenderAlive(c) ==
    \/ pc[c] = "issued"
    \/ \E s \in DOMAIN pending : pending[s] = c

\* ------------------------------------------------------------------- Init
EmptyMap == [x \in {} |-> 0]

\* nothing returned yet to the caller of the method
NoReturn == [ret |-> NoResult, logged |-> FALSE]

\* no status line of git has been read
NotParsed == [kind |-> "none", value |-> "none"]
InitNoStatus ==
    /\ bytes = <<" ", " ">>
    /\ file_status = NotParsed

\* the fields of the client as handle_transport builds them, and the
\* channels and loops around it
InitClient ==
    /\ request_count = 1
    /\ pc = [c \in Calls |-> "idle"]
    /\ call_cmd = [c \in Calls |-> "none"]
    /\ call_args = [c \in Calls |-> NoArguments]
    /\ call_seq = [c \in Calls |-> 0]
    /\ result = [c \in Calls |-> NoResult]
    /\ got = [c \in Calls |-> NoResponse]
    /\ issued = <<>>
    /\ reply_buf = [c \in Calls |-> <<>>]
    /\ begun_closed = [c \in Calls |-> FALSE]
    /\ begun_after_stop = [c \in Calls |-> FALSE]
    /\ server_tx = <<>>
    /\ written = {}
    /\ pending = EmptyMap
    /\ resolved = [s \in Seqs |-> 0]
    /\ rejected = {}
    /\ closed = FALSE
    /\ wire = <<>>
    /\ server_rx = <<>>
    /\ client_q = <<>>
    /\ recv_loop = "running"
    /\ events_loop = "running"
    /\ handled = <<>>
    /\ logged = <<>>
    /\ app_alive = TRUE
    /\ capabilities = NoCaps
    /\ caps_writes = 0
    /\ thread_states = EmptyMap
    /\ faulted = FALSE
    /\ last = NoOp
    /\ returned = [c \in Calls |-> NoReturn]
    /\ guard = 0
    /\ calling = [t \in Tasks |-> NoCall]
    /\ snap = [t \in Tasks |-> NoThreadState]

\* new has returned Ok(client): the adapter runs, the client owns its handle
Init ==
    /\ InitClient
    /\ InitNoStatus
    /\ connection = [kind |-> "stdio", port |-> "none", delay |-> FALSE]
    /\ new_pc = "returned"
    /\ port = "none"
    /\ process = "running"
    /\ handle = "client"
    /\ new_result = "ok"
    /\ transport_started = TRUE
    /\ units_spawned = 2

\* ----------------------------------------------------------- client: new
\* config.connection: STDIO, or TCP(host) with host.port and host.delay
\* given or not
Connections ==
    {[kind |-> "stdio", port |-> "none", delay |-> FALSE]}
        \cup {[kind |-> "tcp", port |-> p, delay |-> d] :
                    p \in {"none", "given"}, d \in BOOLEAN}

\* new has been called and has not run yet
InitNew ==
    /\ InitClient
    /\ InitNoStatus
    /\ connection \in Connections
    /\ new_pc = "start"
    /\ port = "none"
    /\ process = "none"
    /\ handle = "none"
    /\ new_result = "pending"
    /\ transport_started = FALSE
    /\ units_spawned = 0

\* a Child built without kill_on_drop: dropping the handle leaves it alone
DropChild_detached(proc) == proc

\* the Child handle is dropped; .kill_on_drop(true) kills a running child
DropChild(proc) == IF proc = "running" THEN "killed" ELSE proc

\* ok_or_else(|| anyhow!("Failed to open ..")) of the first absent pipe
PipeError(absent) ==
    CASE absent = "stdin" -> "err_stdin"
      [] absent = "stdout" -> "err_stdout"
      [] OTHER -> "err_stderr"

\* match config.connection; in create_tcp_client: let mut port = host.port
NewMatch ==
    /\ new_pc = "start"
    /\ IF connection.kind = "tcp"
       THEN /\ port' = connection.port
            /\ new_pc' = IF connection.port = "none" THEN "get_port"
                          ELSE "spawn"
       ELSE /\ new_pc' = "spawn"
            /\ UNCHANGED port
    /\ last' = NoOp
    /\ UNCHANGED <<reqVars, evVars, thVars, gitVars, closed, returned,
                   connection,
                   process, handle, new_result, transport_started,
                   units_spawned>>

\* port = Self::get_port().await: Some(port) of an ephemeral listener, or
\* None when bind or local_addr failed
GetPort(got_port) ==
    /\ new_pc = "get_port"
    /\ port' = got_port
    /\ new_pc' = "spawn"
    /\ last' = NoOp
    /\ UNCHANGED <<reqVars, evVars, thVars, gitVars, closed, returned,
                   connection,
                   process, handle, new_result, transport_started,
                   units_spawned>>

\* the connect attempted right after the spawn, the delay skipped
AfterSpawn_no_delay(conn) ==
    IF conn.kind = "stdio" THEN "pipes" ELSE "connect"

\* what follows a successful spawn: the pipes in stdio mode; in TCP mode
\* the timer if let Some(delay) = host.delay, else the connect
AfterSpawn(conn) ==
    IF conn.kind = "stdio" THEN "pipes"
    ELSE IF conn.delay THEN "timer"
    ELSE "connect"

\* command.spawn().with_context(..)?
Spawn(ok) ==
    /\ new_pc = "spawn"
    /\ IF ok
       THEN /\ process' = "running"
            /\ handle' = "local"
            /\ new_pc' = AfterSpawn(connection)
            /\ UNCHANGED new_result
       ELSE /\ new_result' = "err_spawn"
            /\ new_pc' = "returned"
            /\ UNCHANGED <<process, handle>>
    /\ last' = NoOp
    /\ UNCHANGED <<reqVars, evVars, thVars, gitVars, closed, returned,
                   connection,
                   port, transport_started, units_spawned>>

\* if let Some(delay) = host.delay { timer(..).await }
Timer ==
    /\ new_pc = "timer"
    /\ new_pc' = "connect"
    /\ last' = NoOp
    /\ UNCHANGED <<reqVars, evVars, thVars, gitVars, closed, returned,
                   connection,
                   port, process, handle, new_result, transport_started,
                   units_spawned>>

\* SocketAddrV4::new(host.host.unwrap_or_else(..), port.unwrap()) and
\* TcpStream::connect(address).await?: unwrap panics on a port of None, and
\* the unwinding, like the return through ?, drops the local Child
Connect(ok) ==
    /\ new_pc = "connect"
    /\ IF port = "none"
       THEN /\ new_result' = "panic"
            /\ new_pc' = "panicked"
            /\ handle' = "dropped"
            /\ process' = DropChild(process)
       ELSE IF ok
       THEN /\ new_pc' = "transport"
            /\ UNCHANGED <<new_result, handle, process>>
       ELSE /\ new_result' = "err_connect"
            /\ new_pc' = "returned"
            /\ handle' = "dropped"
            /\ process' = DropChild(process)
    /\ last' = NoOp
    /\ UNCHANGED <<reqVars, evVars, thVars, gitVars, closed, returned,
                   connection,
                   port, transport_started, units_spawned>>

\* process.stdin.take().ok_or_else(..)?, then stdout, then stderr
TakePipes(absent) ==
    /\ new_pc = "pipes"
    /\ IF absent = "none"
       THEN /\ new_pc' = "transport"
            /\ UNCHANGED <<new_result, handle, process>>
       ELSE /\ new_result' = PipeError(absent)
            /\ new_pc' = "returned"
            /\ handle' = "dropped"
            /\ process' = DropChild(process)
    /\ last' = NoOp
    /\ UNCHANGED <<reqVars, evVars, thVars, gitVars, closed, returned,
                   connection,
                   port, transport_started, units_spawned>>

\* handle_transport: Transport::start, the client built around the Child,
\* then cx.update(|cx| { spawn handle_recv; spawn handle_events })?, which
\* fails when the application is gone and drops the client just built
HandleTransport ==
    /\ new_pc = "transport"
    /\ transport_started' = TRUE
    /\ IF app_alive
       THEN /\ units_spawned' = 2
            /\ handle' = "client"
            /\ new_result' = "ok"
            /\ UNCHANGED process
       ELSE /\ new_result' = "err_update"
            /\ handle' = "dropped"
            /\ process' = DropChild(process)
            /\ UNCHANGED units_spawned
    /\ new_pc' = "returned"
    /\ last' = NoOp
    /\ UNCHANGED <<reqVars, evVars, thVars, gitVars, closed, returned,
                   connection,
                   port>>

\* the client is dropped, by its owner or by unwinding, and its _process
\* field with it
ClientDrop ==
    /\ handle = "client"
    /\ handle' = "dropped"
    /\ process' = DropChild(process)
    /\ last' = NoOp
    /\ UNCHANGED <<reqVars, evVars, thVars, gitVars, closed, returned,
                   connection,
                   new_pc, port, new_result, transport_started,
                   units_spawned>>

\* the spawned adapter exits by itself
ProcessExit ==
    /\ process = "running"
    /\ process' = "exited"
    /\ last' = NoOp
    /\ UNCHANGED <<reqVars, evVars, thVars, gitVars, closed, returned,
                   connection,
                   new_pc, port, handle, new_result, transport_started,
                   units_spawned>>

\* ------------------------------------------------------- client: request
\* a load in place of the fetch_add: the counter is read and not advanced
next_request_id_load(count) == [ret |-> count, new |-> count]

\* self.request_count.fetch_add(1, Ordering::Relaxed): one atomic
\* read-modify-write; ret is the value handed out, new the stored value
\* (the u64 wrap-around lies far outside MaxCalls)
next_request_id(count) == [ret |-> count, new |-> count + 1]

\* a stop() has returned to its caller
StopReturned == \E d \in Calls : pc[d] = "done" /\ call_cmd[d] = "disconnect"

\* Transport: the reply channel is registered under the request's seq when
\* the request is enqueued for writing
RegisterPending(table, seq, c) ==
    [s \in (DOMAIN table) \cup {seq} |-> IF s = seq THEN c ELSE table[s]]

RemovePending(table, seq) ==
    [s \in (DOMAIN table) \ {seq} |-> table[s]]

\* request, up to its first suspension point: arguments serialized, reply
\* channel created, seq taken from the counter
RequestArguments(c, cmd, args) ==
    /\ pc[c] = "idle"
    /\ \A d \in Calls : d < c => pc[d] # "idle"
    /\ Len(issued) < MaxCalls + 1
    /\ LET id == next_request_id(request_count) IN
        /\ request_count' = id.new
        /\ call_seq' = [call_seq EXCEPT ![c] = id.ret]
        /\ issued' = Append(issued, id.ret)
    /\ call_cmd' = [call_cmd EXCEPT ![c] = cmd]
    /\ call_args' = [call_args EXCEPT ![c] = args]
    /\ pc' = [pc EXCEPT ![c] = "issued"]
    /\ begun_closed' = [begun_closed EXCEPT ![c] = closed]
    /\ begun_after_stop' = [begun_after_stop EXCEPT ![c] = StopReturned]
    /\ UNCHANGED <<returned, ctorVars, gitVars>>
    /\ last' = NoOp
    /\ UNCHANGED <<result, got, reply_buf, server_tx, written, pending,
                   resolved, rejected, capabilities, caps_writes, evVars, thVars, closed>>

\* a method that builds typed arguments of its own and calls request
RequestBegin(c, cmd) == RequestArguments(c, cmd, TypedArguments)

\* launch and attach
LaunchCommands == {"launch", "attach"}

\* the JSON values a caller hands to launch and attach
Values == {"empty_object", "program_object"}
OptionValues == {NoneValue} \cup {Some(v) : v \in Values}

\* args.unwrap_or_else(|| json!({}))
launch_raw_empty_object(args) ==
    IF args.some THEN args.value ELSE "empty_object"

\* args.unwrap_or(Value::Null), wrapped as LaunchRequestArguments { raw } or
\* AttachRequestArguments { raw }, which serialize as the raw value itself
launch_raw(args) == IF args.some THEN args.value ELSE "null"

\* launch(args) and attach(args) up to the request id
Launch(c, cmd, args) ==
    /\ cmd \in LaunchCommands
    /\ RequestArguments(c, cmd, [given |-> args,
                                 arguments |-> launch_raw(args)])

\* a host thread calls the public next_request_id on its own
HostNextRequestId ==
    /\ Len(issued) < MaxCalls + 1
    /\ LET id == next_request_id(request_count) IN
        /\ request_count' = id.new
        /\ issued' = Append(issued, id.ret)
    /\ UNCHANGED <<returned, ctorVars, gitVars>>
    /\ last' = NoOp
    /\ UNCHANGED <<pc, call_cmd, call_args, call_seq, result, got, reply_buf, begun_closed,
                   begun_after_stop, server_tx, written, pending, resolved, rejected,
                   capabilities, caps_writes, evVars, thVars, closed>>

\* restart, pause and stop end in request(..).await.log_err()
BestEffortCommands == {"restart", "pause", "disconnect"}

\* the result of request handed on to the caller as it is
MethodReturn_propagate(cmd, res) == [ret |-> res, logged |-> FALSE]

\* what the method around request returns: restart, pause and stop log an
\* Err and return (); every other method returns the result of request
MethodReturn(cmd, res) ==
    IF cmd \in BestEffortCommands
    THEN [ret |-> Ok("unit"), logged |-> res.kind = "err"]
    ELSE [ret |-> res, logged |-> FALSE]

\* the send's error dropped: the call waits for a reply whatever the send did
RequestSend_unchecked(c) ==
    /\ pc[c] = "issued"
    /\ server_tx' = IF closed THEN server_tx
                    ELSE Append(server_tx, [seq |-> call_seq[c],
                                command |-> call_cmd[c],
                                arguments |-> call_args[c].arguments,
                                back_ch |-> c])
    /\ pending' = IF closed THEN pending
                  ELSE RegisterPending(pending, call_seq[c], c)
    /\ pc' = [pc EXCEPT ![c] = "waiting"]
    /\ UNCHANGED <<returned, ctorVars, gitVars>>
    /\ last' = NoOp
    /\ UNCHANGED <<request_count, call_cmd, call_args, call_seq, result, got, issued,
                   reply_buf, begun_closed, begun_after_stop, written,
                   resolved, rejected, capabilities, caps_writes, evVars,
                   thVars, closed>>

\* the seq taken from the counter before the arguments are serialized
SerializeFailure_late(count) ==
    [result |-> Err("serialize"), seq |-> count, new |-> count + 1]

\* let serialized_arguments = serde_json::to_value(arguments)?; the first
\* statement of request: on Err nothing after it has run
SerializeFailure(count) ==
    [result |-> Err("serialize"), seq |-> 0, new |-> count]

\* request on arguments that do not serialize
RequestArgsFail(c, cmd) ==
    /\ pc[c] = "idle"
    /\ \A d \in Calls : d < c => pc[d] # "idle"
    /\ Len(issued) < MaxCalls + 1
    /\ LET f == SerializeFailure(request_count) IN
        /\ request_count' = f.new
        /\ call_seq' = [call_seq EXCEPT ![c] = f.seq]
        /\ issued' = IF f.seq = 0 THEN issued ELSE Append(issued, f.seq)
        /\ result' = [result EXCEPT ![c] = f.result]
        /\ returned' = [returned EXCEPT ![c] = MethodReturn(cmd, f.result)]
    /\ call_cmd' = [call_cmd EXCEPT ![c] = cmd]
    /\ call_args' = [call_args EXCEPT ![c] = NoArguments]
    /\ pc' = [pc EXCEPT ![c] = "done"]
    /\ begun_closed' = [begun_closed EXCEPT ![c] = closed]
    /\ begun_after_stop' = [begun_after_stop EXCEPT ![c] = StopReturned]
    /\ UNCHANGED <<ctorVars, gitVars>>
    /\ last' = NoOp
    /\ UNCHANGED <<got, reply_buf, server_tx, written, pending, resolved,
                   rejected, capabilities, caps_writes, evVars, thVars, closed>>

\* the request enqueued for writing with its reply channel registered
\* nowhere
RequestSend_unregistered(c) ==
    /\ pc[c] = "issued"
    /\ IF closed
       THEN /\ result' = [result EXCEPT ![c] = Err("send_closed")]
            /\ returned' = [returned EXCEPT ![c] =
                                MethodReturn(call_cmd[c], Err("send_closed"))]
            /\ pc' = [pc EXCEPT ![c] = "done"]
            /\ UNCHANGED server_tx
       ELSE /\ server_tx' = Append(server_tx,
                    [seq |-> call_seq[c], command |-> call_cmd[c],
                     arguments |-> call_args[c].arguments, back_ch |-> c])
            /\ pc' = [pc EXCEPT ![c] = "waiting"]
            /\ UNCHANGED <<result, returned>>
    /\ UNCHANGED <<ctorVars, gitVars>>
    /\ last' = NoOp
    /\ UNCHANGED <<request_count, call_cmd, call_args, call_seq, got, issued, reply_buf,
                   begun_closed, begun_after_stop, written, pending, resolved,
                   rejected, capabilities, caps_writes, evVars, thVars, closed>>

\* a client that tracks the session: launch and configuration_done are
\* refused until an initialize has returned Ok
RequestSend_gated(c) ==
    /\ pc[c] = "issued"
    /\ IF \/ closed
          \/ /\ call_cmd[c] \in {"launch", "configuration_done"}
             /\ ~\E d \in Calls : /\ pc[d] = "done"
                                  /\ call_cmd[d] = "initialize"
                                  /\ result[d].kind = "ok"
       THEN /\ result' = [result EXCEPT ![c] = Err("send_closed")]
            /\ returned' = [returned EXCEPT ![c] =
                                MethodReturn(call_cmd[c], Err("send_closed"))]
            /\ pc' = [pc EXCEPT ![c] = "done"]
            /\ UNCHANGED <<server_tx, pending>>
       ELSE /\ server_tx' = Append(server_tx,
                    [seq |-> call_seq[c], command |-> call_cmd[c],
                     arguments |-> call_args[c].arguments, back_ch |-> c])
            /\ pending' = RegisterPending(pending, call_seq[c], c)
            /\ pc' = [pc EXCEPT ![c] = "waiting"]
            /\ UNCHANGED <<result, returned>>
    /\ UNCHANGED <<ctorVars, gitVars>>
    /\ last' = NoOp
    /\ UNCHANGED <<request_count, call_cmd, call_args, call_seq, got, issued, reply_buf,
                   begun_closed, begun_after_stop, written, resolved, rejected,
                   capabilities, caps_writes, evVars, thVars, closed>>

\* self.server_tx.send(Payload::Request(request)).await?
RequestSend(c) ==
    /\ pc[c] = "issued"
    /\ IF closed
       THEN /\ result' = [result EXCEPT ![c] = Err("send_closed")]
            /\ returned' = [returned EXCEPT ![c] =
                                MethodReturn(call_cmd[c], Err("send_closed"))]
            /\ pc' = [pc EXCEPT ![c] = "done"]
            /\ UNCHANGED <<server_tx, pending>>
       ELSE /\ server_tx' = Append(server_tx,
                    [seq |-> call_seq[c], command |-> call_cmd[c],
                     arguments |-> call_args[c].arguments, back_ch |-> c])
            /\ pending' = RegisterPending(pending, call_seq[c], c)
            /\ pc' = [pc EXCEPT ![c] = "waiting"]
            /\ UNCHANGED <<result, returned>>
    /\ UNCHANGED <<ctorVars, gitVars>>
    /\ last' = NoOp
    /\ UNCHANGED <<request_count, call_cmd, call_args, call_seq, got, issued, reply_buf,
                   begun_closed, begun_after_stop, written, resolved, rejected,
                   capabilities, caps_writes, evVars, thVars, closed>>

\* the snapshot stored whatever the request returned
InitializeStores_always(cmd, res) == cmd = "initialize"

\* initialize: *self.capabilities.lock() = Some(capabilities) runs only when
\* the request returned Ok (the ? before it returns the error)
InitializeStores(cmd, res) == cmd = "initialize" /\ res.kind = "ok"

\* recv polled again after the call has returned
RecvReady_repoll(c) ==
    /\ pc[c] \in {"waiting", "done"}
    /\ \/ reply_buf[c] # <<>>
       \/ ~SenderAlive(c)

\* recv given up after a while although the channel is open and empty
RecvReady_timeout(c) == pc[c] = "waiting"

\* recv woken by a message only, never by the channel closing
RecvReady_message_only(c) ==
    /\ pc[c] = "waiting"
    /\ reply_buf[c] # <<>>

\* callback_rx.recv().await resolves: a message is buffered, or the channel
\* is empty and every sender is gone
RecvReady(c) ==
    /\ pc[c] = "waiting"
    /\ \/ reply_buf[c] # <<>>
       \/ ~SenderAlive(c)

\* callback_rx.recv().await?? and the match on response.success; for
\* initialize the store of the snapshot follows in the same poll
RequestRecv(c) ==
    /\ RecvReady(c)
    /\ LET res == IF reply_buf[c] # <<>>
                  THEN ResponseResult(call_cmd[c], Head(reply_buf[c]))
                  ELSE Err("recv_closed") IN
        /\ result' = [result EXCEPT ![c] = res]
        /\ returned' = [returned EXCEPT ![c] = MethodReturn(call_cmd[c], res)]
        /\ IF InitializeStores(call_cmd[c], res)
           THEN /\ capabilities' = IF res.kind = "ok" THEN res.value
                                   ELSE DefaultCaps
                /\ caps_writes' = caps_writes + 1
           ELSE UNCHANGED <<capabilities, caps_writes>>
    /\ got' = IF reply_buf[c] # <<>>
              THEN [got EXCEPT ![c] =
                        [request_seq |-> Head(reply_buf[c]).request_seq,
                         success |-> Head(reply_buf[c]).success]]
              ELSE got
    /\ reply_buf' = [reply_buf EXCEPT ![c] = <<>>]
    /\ pc' = [pc EXCEPT ![c] = "done"]
    /\ UNCHANGED <<ctorVars, gitVars>>
    /\ last' = NoOp
    /\ UNCHANGED <<request_count, call_cmd, call_args, call_seq, issued, begun_closed,
                   begun_after_stop, server_tx, written, pending, resolved, rejected,
                   evVars, thVars, closed>>

\* ------------------------------------------------------------- Transport
Sent(kinds) == Cardinality({i \in DOMAIN wire : wire[i] \in kinds})

\* write loop: takes the next outbound payload and writes its frame
TransportWrite ==
    /\ ~closed
    /\ server_tx # <<>>
    /\ written' = written \cup {Head(server_tx).seq}
    /\ server_tx' = Tail(server_tx)
    /\ UNCHANGED <<returned, ctorVars, gitVars>>
    /\ last' = NoOp
    /\ UNCHANGED <<request_count, pc, call_cmd, call_args, call_seq, result, got, issued,
                   reply_buf, begun_closed, begun_after_stop, pending,
                   resolved, rejected, capabilities, caps_writes, evVars, thVars, closed>>

\* a response that matches no pending request put on the public inbound
\* channel instead of being dropped
TransportReadResponse_forward(seq, success, body) ==
    /\ ~closed
    /\ Sent({"Response"}) < MaxResponses
    /\ wire' = Append(wire, "Response")
    /\ IF seq \in DOMAIN pending
       THEN /\ reply_buf' = [reply_buf EXCEPT ![pending[seq]] =
                    Append(@, [request_seq |-> seq, success |-> success,
                               body |-> body])]
            /\ pending' = RemovePending(pending, seq)
            /\ resolved' = [resolved EXCEPT ![seq] = @ + 1]
            /\ UNCHANGED <<rejected, server_rx>>
       ELSE /\ rejected' = IF resolved[seq] > 0 THEN rejected \cup {seq}
                           ELSE rejected
            /\ server_rx' = Append(server_rx,
                                [kind |-> "Response", id |-> Len(wire) + 1])
            /\ UNCHANGED <<reply_buf, pending, resolved>>
    /\ UNCHANGED <<returned, ctorVars, gitVars>>
    /\ last' = NoOp
    /\ UNCHANGED <<request_count, pc, call_cmd, call_args, call_seq, result, got, issued,
                   begun_closed, begun_after_stop, server_tx, written,
                   capabilities, caps_writes, client_q, recv_loop,
                   events_loop, handled, logged, app_alive, thVars, closed>>

\* read loop, a response frame: routed to the reply channel registered under
\* its request_seq and the entry removed; logged and dropped when none is
TransportReadResponse(seq, success, body) ==
    /\ ~closed
    /\ Sent({"Response"}) < MaxResponses
    /\ wire' = Append(wire, "Response")
    /\ IF seq \in DOMAIN pending
       THEN /\ reply_buf' = [reply_buf EXCEPT ![pending[seq]] =
                    Append(@, [request_seq |-> seq, success |-> success,
                               body |-> body])]
            /\ pending' = RemovePending(pending, seq)
            /\ resolved' = [resolved EXCEPT ![seq] = @ + 1]
            /\ UNCHANGED rejected
       ELSE /\ rejected' = IF resolved[seq] > 0 THEN rejected \cup {seq}
                           ELSE rejected
            /\ UNCHANGED <<reply_buf, pending, resolved>>
    /\ UNCHANGED <<returned, ctorVars, gitVars>>
    /\ last' = NoOp
    /\ UNCHANGED <<request_count, pc, call_cmd, call_args, call_seq, result, got, issued,
                   begun_closed, begun_after_stop, server_tx, written,
                   capabilities, caps_writes, server_rx, client_q, recv_loop,
                   events_loop, handled, logged, app_alive, thVars, closed>>

\* read loop, an event or a reverse request: forwarded onto the public
\* inbound channel (lost when its receiver is gone)
TransportReadForward(kind) ==
    /\ ~closed
    /\ Sent({"Event", "Request"}) < MaxForwards
    /\ wire' = Append(wire, kind)
    /\ server_rx' = IF recv_loop = "running"
                    THEN Append(server_rx, [kind |-> kind, id |-> Len(wire) + 1])
                    ELSE server_rx
    /\ UNCHANGED <<returned, ctorVars, gitVars>>
    /\ last' = NoOp
    /\ UNCHANGED <<reqVars, client_q, recv_loop, events_loop, handled, logged,
                   app_alive, thVars, closed>>

\* the read loop given up on the first frame it cannot decode
IllFormedCloses_any(defect) == TRUE

\* read loop: whether a frame that cannot be decoded ends the loop
IllFormedCloses(defect) == FALSE

\* read loop, an ill-formed frame (malformed length header, truncated body,
\* unparsable JSON): logged and dropped
TransportReadIllFormed(defect) ==
    /\ ~closed
    /\ Sent({"IllFormed"}) < MaxIllFormed
    /\ wire' = Append(wire, "IllFormed")
    /\ IF IllFormedCloses(defect)
       THEN /\ closed' = TRUE
            /\ pending' = EmptyMap
            /\ server_tx' = <<>>
       ELSE UNCHANGED <<closed, pending, server_tx>>
    /\ UNCHANGED <<returned, ctorVars, gitVars>>
    /\ last' = NoOp
    /\ UNCHANGED <<request_count, pc, call_cmd, call_args, call_seq, result, got, issued,
                   reply_buf, begun_closed, begun_after_stop, written,
                   resolved, rejected, capabilities, caps_writes, server_rx,
                   client_q, recv_loop, events_loop, handled, logged,
                   app_alive, thVars>>

\* teardown (stream closed or errored, adapter process exit): both loops
\* end, every outstanding reply channel is dropped, the outbound channel's
\* receiver and the inbound channel's sender are dropped
TransportClose ==
    /\ ~closed
    /\ closed' = TRUE
    /\ pending' = EmptyMap
    /\ server_tx' = <<>>
    /\ UNCHANGED <<returned, ctorVars, gitVars>>
    /\ last' = NoOp
    /\ UNCHANGED <<request_count, pc, call_cmd, call_args, call_seq, result, got, issued,
                   reply_buf, begun_closed, begun_after_stop, written,
                   resolved, rejected, capabilities, caps_writes, evVars, thVars>>

\* ------------------------------------------------- client: the two loops
\* unreachable!() on the reverse-request arm
HandleRecvUnreachable_request(payload) == payload.kind = "Request"

\* the arm of handle_recv's match that is unreachable!()
HandleRecvUnreachable(payload) == payload.kind = "Response"

\* the payload put at the front of the queue
Forward_front(queue, payload) == <<payload>> \o queue

\* client_tx.send(payload).await on the unbounded queue
Forward(queue, payload) == Append(queue, payload)

\* a channel that reports closed as soon as its senders are gone and
\* drops what is still buffered
ChannelRecv_unbuffered(queue, senders_gone) ==
    IF senders_gone THEN "closed"
    ELSE IF queue # <<>> THEN "item" ELSE "pending"

\* a channel whose receiver never learns that the senders are gone
ChannelRecv_never_closed(queue, senders_gone) ==
    IF queue # <<>> THEN "item" ELSE "pending"

\* rx.recv().await in `while let Ok(payload) = rx.recv().await`: the next
\* buffered payload; Err, which ends the loop, once the channel is empty
\* and its senders are gone; pending otherwise
ChannelRecv(queue, senders_gone) ==
    IF queue # <<>> THEN "item"
    ELSE IF senders_gone THEN "closed" ELSE "pending"

\* one turn of handle_recv's while-let loop
HandleRecv ==
    /\ recv_loop = "running"
    /\ ChannelRecv(server_rx, closed) # "pending"
    /\ IF ChannelRecv(server_rx, closed) = "item"
       THEN /\ server_rx' = Tail(server_rx)
            /\ IF HandleRecvUnreachable(Head(server_rx))
               THEN /\ recv_loop' = "panicked"
                    /\ UNCHANGED client_q
               ELSE IF events_loop = "running"
               THEN /\ client_q' = Forward(client_q, Head(server_rx))
                    /\ UNCHANGED recv_loop
               ELSE /\ recv_loop' = "ended"
                    /\ UNCHANGED client_q
       ELSE /\ recv_loop' = "ended"
            /\ UNCHANGED <<server_rx, client_q>>
    /\ UNCHANGED <<returned, ctorVars, gitVars>>
    /\ last' = NoOp
    /\ UNCHANGED <<reqVars, wire, events_loop, handled, logged,
                   app_alive, thVars, closed>>

\* every payload handed to the event handler
dispatch_all(payload) == "handler"

\* the second arm as unreachable!(): a payload that is no Event panics
dispatch_strict(payload) ==
    IF payload.kind = "Event" THEN "handler" ELSE "panic"

\* match payload { Payload::Event(event) => event_handler(*event, cx),
\*                 err => log::error!("Invalid Event: {:#?}", err) }
dispatch(payload) ==
    IF payload.kind = "Event" THEN "handler" ELSE "log"

\* one turn of handle_events' while-let loop
HandleEvents ==
    /\ events_loop = "running"
    /\ ChannelRecv(client_q, recv_loop # "running") # "pending"
    /\ IF ChannelRecv(client_q, recv_loop # "running") = "item"
       THEN /\ client_q' = Tail(client_q)
            /\ IF ~app_alive
               THEN /\ events_loop' = "ended"
                    /\ UNCHANGED <<handled, logged>>
               ELSE CASE dispatch(Head(client_q)) = "handler" ->
                            /\ handled' = Append(handled, Head(client_q).id)
                            /\ UNCHANGED <<events_loop, logged>>
                      [] dispatch(Head(client_q)) = "log" ->
                            /\ logged' = Append(logged, Head(client_q).id)
                            /\ UNCHANGED <<events_loop, handled>>
                      [] OTHER ->
                            /\ events_loop' = "panicked"
                            /\ UNCHANGED <<handled, logged>>
       ELSE /\ events_loop' = "ended"
            /\ UNCHANGED <<client_q, handled, logged>>
    /\ UNCHANGED <<returned, ctorVars, gitVars>>
    /\ last' = NoOp
    /\ UNCHANGED <<reqVars, wire, server_rx, recv_loop, app_alive,
                   thVars, closed>>

\* the host drops the application context the dispatch loop updates
AppDrop ==
    /\ app_alive
    /\ app_alive' = FALSE
    /\ UNCHANGED <<returned, ctorVars, gitVars>>
    /\ last' = NoOp
    /\ UNCHANGED <<reqVars, wire, server_rx, client_q, recv_loop,
                   events_loop, handled, logged, thVars, closed>>

\* ------------------------------------------------- client: thread states
\* ThreadState::default()
DefaultThreadState ==
    [status |-> "Running", stack_frames |-> <<>>, scopes |-> "none",
     variables |-> "none", current_stack_frame_id |-> 0]

\* what a host writes through the guard after a stack-trace fetch
FetchedThreadState ==
    [status |-> "Stopped", stack_frames |-> <<1>>, scopes |-> "fetched",
     variables |-> "fetched", current_stack_frame_id |-> 1]

ThreadStateSamples == {DefaultThreadState, FetchedThreadState}

\* entry(thread_id).or_default().status = status
update_thread_state_status_insert(states, thread_id, status) ==
    [t \in (DOMAIN states) \cup {thread_id} |->
        IF t = thread_id
        THEN [(IF t \in DOMAIN states THEN states[t] ELSE DefaultThreadState)
                EXCEPT !.status = status]
        ELSE states[t]]

\* the entry dropped from the cache once its thread has exited or ended
update_thread_state_status_evict(states, thread_id, status) ==
    IF thread_id \in DOMAIN states
    THEN IF status \in {"Exited", "Ended"}
         THEN [t \in (DOMAIN states) \ {thread_id} |-> states[t]]
         ELSE [states EXCEPT ![thread_id].status = status]
    ELSE states

\* the entry replaced by a fresh ThreadState that carries the status
update_thread_state_status_reset(states, thread_id, status) ==
    IF thread_id \in DOMAIN states
    THEN [states EXCEPT ![thread_id] =
            [DefaultThreadState EXCEPT !.status = status]]
    ELSE states

\* if let Some(thread_state) = self.thread_states().get_mut(&thread_id)
\*     { thread_state.status = status; }
update_thread_state_status(states, thread_id, status) ==
    IF thread_id \in DOMAIN states
    THEN [states EXCEPT ![thread_id].status = status]
    ELSE states

UpdateThreadStateStatus(thread_id, status) ==
    /\ thread_states' = update_thread_state_status(thread_states, thread_id, status)
    /\ UNCHANGED lockVars
    /\ UNCHANGED <<returned, ctorVars, gitVars>>
    /\ last' = [op |-> "update_thread_state_status", id |-> thread_id,
                known |-> thread_id \in DOMAIN thread_states,
                status |-> status, ret |-> NoThreadState]
    /\ faulted' = FALSE
    /\ UNCHANGED <<reqVars, evVars, closed>>

\* thread_states(): the host writes an entry through the guard
ThreadStatesWrite(thread_id, ts) ==
    /\ thread_states' = [t \in (DOMAIN thread_states) \cup {thread_id} |->
                            IF t = thread_id THEN ts ELSE thread_states[t]]
    /\ UNCHANGED lockVars
    /\ UNCHANGED <<returned, ctorVars, gitVars>>
    /\ last' = [op |-> "thread_states", id |-> thread_id,
                known |-> thread_id \in DOMAIN thread_states,
                status |-> ts.status, ret |-> NoThreadState]
    /\ faulted' = FALSE
    /\ UNCHANGED <<reqVars, evVars, closed>>

\* get(&thread_id).cloned().unwrap_or_default(): no fault, a default entry
thread_state_by_id_or_default(states, thread_id) ==
    [fault |-> FALSE,
     value |-> IF thread_id \in DOMAIN states THEN states[thread_id]
               ELSE DefaultThreadState]

\* self.thread_states.lock().get(&thread_id).cloned().unwrap(): the clone of
\* the entry, or the panic of unwrap on None
thread_state_by_id(states, thread_id) ==
    IF thread_id \in DOMAIN states
    THEN [fault |-> FALSE, value |-> states[thread_id]]
    ELSE [fault |-> TRUE, value |-> NoThreadState]

ThreadStateById(thread_id) ==
    /\ faulted' = thread_state_by_id(thread_states, thread_id).fault
    /\ UNCHANGED lockVars
    /\ UNCHANGED <<returned, ctorVars, gitVars>>
    /\ last' = [op |-> "thread_state_by_id", id |-> thread_id,
                known |-> thread_id \in DOMAIN thread_states,
                status |-> "none",
                ret |-> thread_state_by_id(thread_states, thread_id).value]
    /\ UNCHANGED <<reqVars, evVars, thread_states, closed>>

\* --------------------------------------------- client: the cache's lock
\* a lock that any task may take at any time
CanLock_unlocked(g, t) == TRUE

\* self.thread_states.lock() returns: parking_lot's Mutex is not
\* reentrant, the lock is given only when no task holds it
CanLock(g, t) == g = 0

\* the guard forgotten instead of dropped: the lock stays taken
GuardDropped_forgotten(t) == t

\* the MutexGuard returned by thread_states() is dropped: the lock is free
GuardDropped(t) == 0

\* the next write of a batch on an entry: the entry inserted, then the
\* frames of a stack-trace fetch, then scopes, variables and the focus
BatchStep(states, thread_id) ==
    IF thread_id \notin DOMAIN states
    THEN [t \in (DOMAIN states) \cup {thread_id} |->
            IF t = thread_id THEN DefaultThreadState ELSE states[t]]
    ELSE IF states[thread_id].stack_frames = <<>>
    THEN [states EXCEPT ![thread_id].stack_frames = <<1>>]
    ELSE [states EXCEPT ![thread_id].scopes = "fetched",
                        ![thread_id].variables = "fetched",
                        ![thread_id].current_stack_frame_id = 1]

\* an entry between two writes of a batch: frames without a focus
HalfApplied(ts) == ts.stack_frames # <<>> /\ ts.current_stack_frame_id = 0

\* a task enters thread_states(), update_thread_state_status or
\* thread_state_by_id and reaches lock(); a task that holds the guard of
\* thread_states() may do so as well
TaskCall(t, call) ==
    /\ calling[t] = NoCall
    /\ calling' = [calling EXCEPT ![t] = call]
    /\ UNCHANGED <<returned, ctorVars, gitVars>>
    /\ last' = NoOp
    /\ UNCHANGED <<reqVars, evVars, closed, thread_states, faulted, guard,
                   snap>>

\* lock() returns to the task: thread_states() hands the guard to its
\* caller; the two accessors do their work and drop the guard before they
\* return
LockAcquire(t) ==
    /\ calling[t] # NoCall
    /\ CanLock(guard, t)
    /\ calling' = [calling EXCEPT ![t] = NoCall]
    /\ CASE calling[t].op = "thread_states" ->
                /\ guard' = t
                /\ UNCHANGED <<thread_states, faulted, snap>>
         [] calling[t].op = "update_thread_state_status" ->
                /\ thread_states' = update_thread_state_status(thread_states,
                                        calling[t].id, calling[t].status)
                /\ faulted' = FALSE
                /\ UNCHANGED <<guard, snap>>
         [] OTHER ->
                /\ faulted' = thread_state_by_id(thread_states,
                                                 calling[t].id).fault
                /\ snap' = IF calling[t].id \in DOMAIN thread_states
                           THEN [snap EXCEPT ![t] =
                                    thread_state_by_id(thread_states,
                                                       calling[t].id).value]
                           ELSE snap
                /\ UNCHANGED <<guard, thread_states>>
    /\ UNCHANGED <<returned, ctorVars, gitVars>>
    /\ last' = [op |-> calling[t].op, id |-> calling[t].id,
                known |-> calling[t].id \in DOMAIN thread_states,
                status |-> calling[t].status, ret |-> NoThreadState]
    /\ UNCHANGED <<reqVars, evVars, closed>>

\* the holder of the guard writes the next part of its batch
GuardWrite(t, thread_id) ==
    /\ guard = t
    /\ calling[t] = NoCall
    /\ IF thread_id \in DOMAIN thread_states
       THEN thread_states[thread_id].current_stack_frame_id = 0
       ELSE TRUE
    /\ thread_states' = BatchStep(thread_states, thread_id)
    /\ UNCHANGED <<returned, ctorVars, gitVars>>
    /\ last' = NoOp
    /\ UNCHANGED <<reqVars, evVars, closed, faulted, lockVars>>

\* the holder drops the guard once its batch is complete
GuardDrop(t) ==
    /\ guard = t
    /\ calling[t] = NoCall
    /\ \A id \in DOMAIN thread_states : ~HalfApplied(thread_states[id])
    /\ guard' = GuardDropped(t)
    /\ UNCHANGED <<returned, ctorVars, gitVars>>
    /\ last' = NoOp
    /\ UNCHANGED <<reqVars, evVars, closed, thread_states, faulted, calling,
                   snap>>

\* ------------------------------------------------------ git: FileStatus
\* the bytes of a status line: those of git's table and one that is not
Bytes == {"?", "!", "M", "T", "A", "D", "R", "C", "U", " ", "X"}

Untracked == [variant |-> "Untracked", first |-> "none", second |-> "none"]
Ignored == [variant |-> "Ignored", first |-> "none", second |-> "none"]

\* FileStatus::Unmerged(UnmergedStatus { first_head, second_head })
Unmerged(first_head, second_head) ==
    [variant |-> "Unmerged", first |-> first_head, second |-> second_head]

\* FileStatus::Tracked(TrackedStatus { index_status, worktree_status })
Tracked(index_status, worktree_status) ==
    [variant |-> "Tracked", first |-> index_status,
     second |-> worktree_status]

\* StatusCode::from_byte
StatusCode_from_byte(byte) ==
    CASE byte = "M" -> Ok("Modified")
      [] byte = "T" -> Ok("TypeChanged")
      [] byte = "A" -> Ok("Added")
      [] byte = "D" -> Ok("Deleted")
      [] byte = "R" -> Ok("Renamed")
      [] byte = "C" -> Ok("Copied")
      [] byte = " " -> Ok("Unmodified")
      [] OTHER -> Err("invalid_status_code")

\* UnmergedStatusCode::from_byte
UnmergedStatusCode_from_byte(byte) ==
    CASE byte = "A" -> Ok("Added")
      [] byte = "D" -> Ok("Deleted")
      [] byte = "U" -> Ok("Updated")
      [] OTHER -> Err("invalid_unmerged_status_code")

\* FileStatus::from_bytes: the arms of the match in their order, each `?`
\* returning the error of from_byte
from_bytes(pair) ==
    LET x == pair[1]
        y == pair[2] IN
    IF pair = <<"?", "?">> THEN Ok(Untracked)
    ELSE IF pair = <<"!", "!">> THEN Ok(Ignored)
    ELSE IF pair = <<"A", "A">> THEN Ok(Unmerged("Added", "Added"))
    ELSE IF pair = <<"D", "D">> THEN Ok(Unmerged("Added", "Added"))
    ELSE IF y = "U"
    THEN IF UnmergedStatusCode_from_byte(x).kind = "err"
         THEN UnmergedStatusCode_from_byte(x)
         ELSE Ok(Unmerged(UnmergedStatusCode_from_byte(x).value, "Updated"))
    ELSE IF x = "U"
    THEN IF UnmergedStatusCode_from_byte(y).kind = "err"
         THEN UnmergedStatusCode_from_byte(y)
         ELSE Ok(Unmerged("Updated", UnmergedStatusCode_from_byte(y).value))
    ELSE IF StatusCode_from_byte(x).kind = "err"
    THEN StatusCode_from_byte(x)
    ELSE IF StatusCode_from_byte(y).kind = "err"
    THEN StatusCode_from_byte(y)
    ELSE Ok(Tracked(StatusCode_from_byte(x).value,
                    StatusCode_from_byte(y).value))

\* a status line is parsed: its two bytes go through from_bytes
FromBytes ==
    /\ file_status = NotParsed
    /\ file_status' = from_bytes(bytes)
    /\ last' = NoOp
    /\ UNCHANGED <<reqVars, evVars, thVars, closed, returned, ctorVars,
                   bytes>>

\* --------------------------------------------------------- specifications
\* The request path, the event path and the thread-state cache share no
\* state but the Transport's teardown, so each is explored on its own, with
\* the teardown in it; Spec is the whole client.
RequestNext ==
    \/ \E c \in Calls, cmd \in Commands : RequestBegin(c, cmd)
    \/ \E c \in Calls : RequestSend(c)
    \/ \E c \in Calls : RequestRecv(c)
    \/ TransportWrite
    \/ \E seq \in Calls, success \in BOOLEAN, body \in Bodies :
            TransportReadResponse(seq, success, body)
    \/ TransportClose

\* the event path, with one request in flight beside it
EventNext ==
    \/ \E kind \in {"Event", "Request"} : TransportReadForward(kind)
    \/ HandleRecv
    \/ HandleEvents
    \/ AppDrop
    \/ RequestBegin(1, "next")
    \/ RequestSend(1)
    \/ RequestRecv(1)
    \/ \E seq \in Calls, success \in BOOLEAN :
            TransportReadResponse(seq, success, "absent")
    \/ TransportClose

\* concurrent callers of request and of next_request_id on the counter
CounterNext ==
    \/ \E c \in Calls, cmd \in Commands : RequestBegin(c, cmd)
    \/ HostNextRequestId
    \/ \E c \in Calls : RequestSend(c)
    \/ TransportWrite
    \/ TransportClose

ThreadNext ==
    \/ \E id \in ThreadIds, st \in ThreadStatus : UpdateThreadStateStatus(id, st)
    \/ \E id \in ThreadIds, ts \in ThreadStateSamples : ThreadStatesWrite(id, ts)
    \/ \E id \in ThreadIds : ThreadStateById(id)

Next == RequestNext \/ CounterNext \/ EventNext \/ ThreadNext

Spec == Init /\ [][Next]_vars

SpecRequests == Init /\ [][RequestNext]_vars

\* the request path with one command and one body, for the teardown
TeardownNext ==
    \/ \E c \in Calls : RequestBegin(c, "next")
    \/ \E c \in Calls : RequestSend(c)
    \/ \E c \in Calls : RequestRecv(c)
    \/ TransportWrite
    \/ \E seq \in Calls, success \in BOOLEAN :
            TransportReadResponse(seq, success, "absent")
    \/ TransportClose

\* a caller suspended in recv is woken when its channel gets a message or
\* is closed, and the executor then polls it
FairRequests ==
    /\ Init
    /\ [][TeardownNext]_vars
    /\ \A c \in Calls : WF_vars(RequestRecv(c))

SpecCounter == Init /\ [][CounterNext]_vars

\* one call of new, from the match on the connection type to the drop of
\* the client it returned
NewNext ==
    \/ NewMatch
    \/ \E got_port \in {"none", "ephemeral"} : GetPort(got_port)
    \/ \E ok \in BOOLEAN : Spawn(ok)
    \/ Timer
    \/ \E ok \in BOOLEAN : Connect(ok)
    \/ \E absent \in {"none", "stdin", "stdout", "stderr"} : TakePipes(absent)
    \/ HandleTransport
    \/ ClientDrop
    \/ ProcessExit
    \/ AppDrop

SpecNew == InitNew /\ [][NewNext]_vars

\* callers of restart, pause and stop, and the adapter's answers to them
BestEffortNext ==
    \/ \E c \in Calls, cmd \in BestEffortCommands : RequestBegin(c, cmd)
    \/ \E c \in Calls : RequestSend(c)
    \/ \E c \in Calls : RequestRecv(c)
    \/ TransportWrite
    \/ \E seq \in Calls, success \in BOOLEAN,
            body \in {"absent", "empty_object"} :
            TransportReadResponse(seq, success, body)
    \/ TransportClose

SpecBestEffort == Init /\ [][BestEffortNext]_vars

\* callers of request, some with arguments that do not serialize
SerializeNext ==
    \/ \E c \in Calls : RequestBegin(c, "next")
    \/ \E c \in Calls : RequestArgsFail(c, "next")
    \/ \E c \in Calls : RequestSend(c)
    \/ \E c \in Calls : RequestRecv(c)
    \/ TransportWrite
    \/ \E seq \in Calls, success \in BOOLEAN :
            TransportReadResponse(seq, success, "absent")
    \/ TransportClose

SpecSerialize == Init /\ [][SerializeNext]_vars

\* the read loop on a stream that carries ill-formed frames between the
\* events and the response to the one request in flight
FrameNext ==
    \/ \E defect \in {"header", "truncated", "json"} :
            TransportReadIllFormed(defect)
    \/ TransportReadForward("Event")
    \/ HandleRecv
    \/ HandleEvents
    \/ RequestBegin(1, "next")
    \/ RequestSend(1)
    \/ RequestRecv(1)
    \/ TransportWrite
    \/ \E seq \in Calls : TransportReadResponse(seq, TRUE, "absent")
    \/ TransportClose

SpecFrames == Init /\ [][FrameNext]_vars

\* initialize, launch (attach has the same shape) and configuration_done
LifecycleCommands == {"initialize", "launch", "configuration_done"}

\* a host calling the session's methods in any order
LifecycleNext ==
    \/ \E c \in Calls, cmd \in LifecycleCommands : RequestBegin(c, cmd)
    \/ \E c \in Calls : RequestSend(c)
    \/ \E c \in Calls : RequestRecv(c)
    \/ TransportWrite
    \/ \E seq \in Calls, success \in BOOLEAN,
            body \in {"absent", "empty_object"} :
            TransportReadResponse(seq, success, body)
    \/ TransportClose

\* initialize called again and again, answered in every way
InitializeNext ==
    \/ \E c \in Calls : RequestBegin(c, "initialize")
    \/ \E c \in Calls : RequestSend(c)
    \/ \E c \in Calls : RequestRecv(c)
    \/ TransportWrite
    \/ \E seq \in Calls, success \in BOOLEAN, body \in Bodies :
            TransportReadResponse(seq, success, body)
    \/ TransportClose

SpecInitialize == Init /\ [][InitializeNext]_vars

\* launch and attach with every kind of argument, answered without a body
LaunchNext ==
    \/ \E c \in Calls, cmd \in LaunchCommands, args \in OptionValues :
            Launch(c, cmd, args)
    \/ \E c \in Calls : RequestSend(c)
    \/ \E c \in Calls : RequestRecv(c)
    \/ TransportWrite
    \/ \E seq \in Calls : TransportReadResponse(seq, TRUE, "absent")
    \/ TransportClose

SpecLaunch == Init /\ [][LaunchNext]_vars

SpecLifecycle == Init /\ [][LifecycleNext]_vars

SpecEvents == Init /\ [][EventNext]_vars

\* the two loops from the inbound channel to the handler, with a host
\* that uses the thread cache beside them
DispatchNext ==
    \/ \E kind \in {"Event", "Request"} : TransportReadForward(kind)
    \/ HandleRecv
    \/ HandleEvents
    \/ AppDrop
    \/ TransportClose
    \/ ThreadStatesWrite(1, FetchedThreadState)
    \/ ThreadStateById(1)

\* both loops are tasks detached on the executors (cx.spawn and
\* background_executor().spawn), which poll a task that has been woken
FairEvents ==
    /\ Init
    /\ [][DispatchNext]_vars
    /\ WF_vars(HandleRecv)
    /\ WF_vars(HandleEvents)

SpecThreads == Init /\ [][ThreadNext]_vars

\* a status line with any pair of bytes, not yet parsed
InitStatus ==
    /\ InitClient
    /\ bytes \in Bytes \X Bytes
    /\ file_status = NotParsed
    /\ connection = [kind |-> "stdio", port |-> "none", delay |-> FALSE]
    /\ new_pc = "returned"
    /\ port = "none"
    /\ process = "running"
    /\ handle = "client"
    /\ new_result = "ok"
    /\ transport_started = TRUE
    /\ units_spawned = 2

SpecStatus == InitStatus /\ [][FromBytes]_vars

\* the calls a task can make on the cache, all about one thread
CacheCalls ==
    {[op |-> "thread_states", id |-> 0, status |-> "none"],
     [op |-> "update_thread_state_status", id |-> 1, status |-> "Stopped"],
     [op |-> "thread_state_by_id", id |-> 1, status |-> "none"]}

\* a holder of the guard goes on with its batch or drops the guard
GuardStep(t) ==
    \/ GuardWrite(t, 1)
    \/ GuardDrop(t)

\* tasks of the host that share the client and use the cache concurrently
LockNext ==
    \/ \E t \in Tasks, call \in CacheCalls : TaskCall(t, call)
    \/ \E t \in Tasks : LockAcquire(t)
    \/ \E t \in Tasks : GuardStep(t)

SpecLocks == Init /\ [][LockNext]_vars

\* parking_lot hands a contended lock to a waiter eventually, and a task
\* that holds the guard and is not itself blocked goes on to drop it
FairLocks ==
    /\ Init
    /\ [][LockNext]_vars
    /\ \A t \in Tasks : SF_vars(LockAcquire(t))
    /\ \A t \in Tasks : WF_vars(GuardStep(t))

\* ------------------------------------------------------------ properties
OkInits ==
    {c \in Calls : pc[c] = "done" /\ call_cmd[c] = "initialize"
                   /\ result[c].kind = "ok"}

Ids(queue) == [i \in DOMAIN queue |-> queue[i].id]

StrictlyIncreasing(seq) ==
    \A i, j \in DOMAIN seq : i < j => seq[i] < seq[j]

\* C1: the numbers next_request_id hands out, to request and to direct
\* callers alike, are 1, 2, 3, ... in issue order (so distinct, strictly
\* increasing, the first one 1); the counter stands one past the last; every
\* call of request holds one of them, a later call a larger one, whatever
\* its command.
C1_SeqNumbersDistinctIncreasing ==
    /\ \A i \in DOMAIN issued : issued[i] = i
    /\ request_count = Len(issued) + 1
    /\ \A c \in Calls : pc[c] # "idle" =>
            \E i \in DOMAIN issued : issued[i] = call_seq[c]
    /\ \A c, d \in Calls : (c < d /\ pc[d] # "idle") => call_seq[c] < call_seq[d]

\* two calls with different commands, a direct next_request_id between them
C1_Witness ==
    /\ pc[1] # "idle" /\ pc[2] # "idle"
    /\ call_cmd[1] # call_cmd[2]
    /\ call_seq[1] = 1
    /\ call_seq[2] > 2

\* C2: per sequence number at most one response is ever routed to a reply
\* channel, and once request has returned to its caller no later step (a
\* repeated response included) changes what it returned.
C2_OneResponseResolves ==
    [][/\ \A s \in Seqs : resolved'[s] <= 1
       /\ \A c \in Calls : pc[c] = "done" =>
                pc'[c] = "done" /\ result'[c] = result[c]]_vars

\* a call has its result and a second response with its seq was dropped
C2_Witness ==
    \E c \in Calls :
        /\ pc[c] = "done"
        /\ result[c].kind = "ok"
        /\ call_seq[c] \in rejected

\* C3: a reply channel only ever holds a response carrying its own call's
\* seq; what request returns is decided by that response alone: failure
\* exactly when that response says success false, success only when it says
\* success true.
C3_ResponseMatchesCaller ==
    \A c \in Calls :
        /\ Len(reply_buf[c]) <= 1
        /\ \A i \in DOMAIN reply_buf[c] : reply_buf[c][i].request_seq = call_seq[c]
        /\ (pc[c] = "done" /\ got[c] # NoResponse) =>
                /\ got[c].request_seq = call_seq[c]
                /\ result[c].kind = "ok" => got[c].success
                /\ result[c] = Err("request_failed") <=> ~got[c].success
        /\ (pc[c] = "done" /\ result[c] = Err("request_failed")) =>
                got[c] # NoResponse

\* the later call was answered first, with a failure, and the earlier call
\* is still in flight
C3_Witness ==
    /\ pc[2] = "done"
    /\ result[2] = Err("request_failed")
    /\ pc[1] = "waiting"
    /\ call_seq[1] \in DOMAIN pending

\* C4: a caller that is blocked in request with no response delivered when
\* the Transport is closed eventually returns an error.
C4_PendingCallersFail ==
    \A c \in Calls :
        (closed /\ pc[c] = "waiting" /\ reply_buf[c] = <<>>)
            ~> (pc[c] = "done" /\ result[c].kind = "err")

\* the teardown found every call pending, and each has returned the error
C4_Witness ==
    /\ closed
    /\ \A c \in Calls : pc[c] = "done" /\ result[c] = Err("recv_closed")

C6_NoResponseInbound ==
    /\ recv_loop # "panicked"
    /\ \A i \in DOMAIN server_rx : server_rx[i].kind # "Response"
    /\ \A i \in DOMAIN client_q : client_q[i].kind # "Response"

\* the adapter sent a response that matched and one that did not, and the
\* forwarding loop has gone on forwarding
C6_Witness ==
    /\ Sent({"Response"}) >= 2
    /\ resolved[1] = 1
    /\ recv_loop = "running"
    /\ handled # <<>>

\* C7: the ids passed to the handler, followed by the ids still queued, are
\* in strictly increasing wire order (so none twice, none overtaken); the
\* same for the logged reverse requests; the handler only gets events.
C7_EventsInWireOrder ==
    /\ StrictlyIncreasing(handled \o Ids(client_q) \o Ids(server_rx))
    /\ StrictlyIncreasing(logged \o Ids(client_q) \o Ids(server_rx))
    /\ \A i \in DOMAIN handled :
            handled[i] \in DOMAIN wire /\ wire[handled[i]] = "Event"

\* two events dispatched and a reverse request logged
C7_Witness ==
    /\ Len(handled) >= 2
    /\ logged # <<>>

\* C8: capabilities() always yields a Capabilities value: the default one
\* as long as no initialize has returned Ok, and afterwards the value an
\* initialize returned from the adapter's response.
C8_CapabilitiesDefaultThenReported ==
    /\ capabilities_get \in {DefaultCaps, StepBackCaps}
    /\ OkInits = {} => capabilities_get = DefaultCaps
    /\ OkInits # {} => \E c \in OkInits : capabilities_get = result[c].value

\* initialize has returned non-default capabilities and capabilities()
\* yields them
C8_Witness ==
    /\ \E c \in OkInits : result[c].value = StepBackCaps
    /\ capabilities_get = StepBackCaps

\* C9 as stated: the snapshot is stored at most once in the client's life.
C9_WrittenOnce == caps_writes <= 1

\* C9 amended: the snapshot is stored once per initialize that returned Ok
\* and by nothing else; it is None until the first and holds a value an
\* initialize returned from then on.
C9_WrittenPerSuccessfulInitialize ==
    /\ caps_writes = Cardinality(OkInits)
    /\ capabilities = NoCaps <=> OkInits = {}
    /\ OkInits # {} => \E c \in OkInits : capabilities = result[c].value

\* two initialize calls returned Ok with different capabilities
C9_Witness ==
    /\ caps_writes = 2
    /\ \E c, d \in OkInits : result[c].value # result[d].value

\* C10: a step that is update_thread_state_status on an id without an
\* entry returns without a fault and leaves the cache as it was.
C10_UnknownIdNoOp ==
    [][(last'.op = "update_thread_state_status" /\ ~last'.known) =>
            (thread_states' = thread_states /\ ~faulted')]_vars

\* the update was called for an unknown id while another id has an entry
C10_Witness ==
    /\ last.op = "update_thread_state_status"
    /\ ~last.known
    /\ DOMAIN thread_states # {}

\* C11 as stated: after update_thread_state_status on an id that had no
\* entry, the cache holds an entry for the id with the status passed.
C11_FirstUpdateCreatesEntry ==
    (last.op = "update_thread_state_status" /\ ~last.known) =>
        /\ last.id \in DOMAIN thread_states
        /\ thread_states[last.id].status = last.status

\* C11 amended: update_thread_state_status creates no entry: on an id that
\* had none the cache still has none for it afterwards; on an id that had
\* one, the entry has the status passed.
C11_UpdateNeverCreatesEntry ==
    last.op = "update_thread_state_status" =>
        IF last.known
        THEN /\ last.id \in DOMAIN thread_states
             /\ thread_states[last.id].status = last.status
        ELSE last.id \notin DOMAIN thread_states

\* the very first status update of the client's life, on an empty cache
C11_Witness ==
    /\ last.op = "update_thread_state_status"
    /\ ~last.known
    /\ last.status = "Stopped"
    /\ thread_states = EmptyMap

\* C12: thread_state_by_id panics exactly when the id has no entry, and
\* for an id with an entry it returns the entry as it stands in the cache.
C12_ByIdFaultsOnUnknownOnly ==
    last.op = "thread_state_by_id" =>
        /\ faulted <=> ~last.known
        /\ last.known => /\ last.id \in DOMAIN thread_states
                         /\ last.ret = thread_states[last.id]

\* the accessor panicked on an id without an entry while another id has one
C12_Witness ==
    /\ last.op = "thread_state_by_id"
    /\ faulted
    /\ DOMAIN thread_states # {}
    /\ last.id \notin DOMAIN thread_states

\* C13: no step removes an id from the cache, and a status update leaves
\* the stack frames of every entry as they were.
C13_EntriesNeverDeleted ==
    [][/\ DOMAIN thread_states \subseteq DOMAIN thread_states'
       /\ last'.op = "update_thread_state_status" =>
            \A t \in DOMAIN thread_states :
                thread_states'[t].stack_frames = thread_states[t].stack_frames]_vars

\* a thread that has exited is queried and returned with its frames
C13_Witness ==
    /\ last.op = "thread_state_by_id"
    /\ ~faulted
    /\ last.ret.status = "Exited"
    /\ last.ret.stack_frames = <<1>>

\* C14: when request takes the response to its request off the reply
\* channel, it returns the deserialized body if the success flag is true
\* and the body deserializes into the command's response type, and an
\* error (request failed, or the deserialization error) in every other case.
C14_ResultFollowsResponse ==
    [][\A c \in Calls :
        (pc[c] = "waiting" /\ pc'[c] = "done" /\ reply_buf[c] # <<>>) =>
            LET response == Head(reply_buf[c])
                value == Deserialize(call_cmd[c], response.body) IN
            IF response.success /\ value.kind = "ok"
            THEN result'[c] = value
            ELSE /\ result'[c].kind = "err"
                 /\ result'[c].value \in {"request_failed", "deserialize"}]_vars

\* one call failed on a successful response whose body did not deserialize,
\* another on a response with success false
C14_Witness ==
    \E c, d \in Calls :
        /\ pc[c] = "done" /\ got[c].success
        /\ result[c] = Err("deserialize")
        /\ pc[d] = "done" /\ got[d] # NoResponse /\ ~got[d].success
        /\ result[d] = Err("request_failed")

\* C15: a call of restart, pause or stop that has finished has returned ()
\* to its caller whatever request returned, and an error of request has
\* been logged.
C15_BestEffortNeverPropagates ==
    \A c \in Calls :
        (pc[c] = "done" /\ call_cmd[c] \in BestEffortCommands) =>
            /\ returned[c].ret = Ok("unit")
            /\ result[c].kind = "err" => returned[c].logged

\* one call found the outbound channel closed, another was answered with
\* success false, and both returned normally
C15_Witness ==
    \E c, d \in Calls :
        /\ call_cmd[c] = "restart" /\ result[c] = Err("send_closed")
        /\ call_cmd[d] = "pause" /\ result[d] = Err("request_failed")
        /\ returned[c].ret = Ok("unit") /\ returned[d].ret = Ok("unit")

Range(seq) == {seq[i] : i \in DOMAIN seq}

\* C16 as stated: every reverse request that the dispatch loop has taken
\* from its queue has been passed to the event handler.
C16_ReverseRequestsReachHandler ==
    \A id \in DOMAIN wire :
        (wire[id] = "Request" /\ id \in Range(logged) \cup Range(handled)) =>
            id \in Range(handled)

\* C16 amended: while both loops run, every reverse request the adapter
\* sent is in the Transport's inbound channel, in the internal queue, or has
\* been logged by the dispatch loop; what the handler got are events only,
\* and what was logged are reverse requests only.
C16_ReverseRequestsForwardedAndLogged ==
    /\ \A i \in DOMAIN handled : wire[handled[i]] = "Event"
    /\ \A i \in DOMAIN logged : wire[logged[i]] = "Request"
    /\ (recv_loop = "running" /\ events_loop = "running") =>
        \A id \in DOMAIN wire :
            wire[id] = "Request" =>
                id \in Range(Ids(server_rx)) \cup Range(Ids(client_q))
                        \cup Range(logged)

\* a reverse request has gone through both loops and ended in the log,
\* with another one still on its way
C16_Witness ==
    /\ logged # <<>>
    /\ recv_loop = "running" /\ events_loop = "running"
    /\ \E i \in DOMAIN client_q : client_q[i].kind = "Request"

\* C17: the step of the dispatch loop that takes a Request payload logs
\* it, leaves the handler's history alone and leaves the loop running; the
\* handler is called for Event payloads only, and the loop never panics.
C17_HandlerOnlyForEvents ==
    [][/\ events_loop' # "panicked"
       /\ handled' # handled =>
            /\ client_q # <<>> /\ Head(client_q).kind = "Event"
            /\ handled' = Append(handled, Head(client_q).id)
       /\ (events_loop = "running" /\ app_alive /\ client_q # <<>>
            /\ client_q' = Tail(client_q) /\ Head(client_q).kind = "Request") =>
            /\ logged' = Append(logged, Head(client_q).id)
            /\ handled' = handled
            /\ events_loop' = "running"]_vars

\* an event that came after a logged reverse request has been dispatched
C17_Witness ==
    /\ events_loop = "running"
    /\ \E i \in DOMAIN logged, j \in DOMAIN handled : logged[i] < handled[j]

NewFailed == new_result \notin {"pending", "ok"}

\* C18: an adapter process that was spawned does not run on once the
\* handle that owns it has been dropped, be it with the client or when new
\* fails after the spawn; as long as it runs, new or the client holds it.
C18_NoProcessOutlivesHandle ==
    /\ handle = "dropped" => process \in {"killed", "exited"}
    /\ NewFailed => process # "running"
    /\ process = "running" => handle \in {"local", "client"}

\* the connect failed after the spawn and the adapter has been killed
C18_Witness ==
    /\ new_result = "err_connect"
    /\ handle = "dropped"
    /\ process = "killed"

\* C19: new never panics, and when it fails on a spawn, a pipe, the port
\* allocation or the connect, it has returned an error with no Transport
\* started and no background unit spawned.
C19_FailuresAreErrorValues ==
    /\ new_result # "panic"
    /\ new_pc # "panicked"
    /\ new_result \in {"err_spawn", "err_stdin", "err_stdout", "err_stderr",
                       "err_connect"} =>
            /\ ~transport_started
            /\ units_spawned = 0
            /\ handle # "client"

\* C20 as stated: a launch or configuration_done request is on the wire
\* only if an initialize has returned Ok.
C20_NothingSentBeforeInitialize ==
    \A c \in Calls :
        (call_cmd[c] \in {"launch", "configuration_done"}
            /\ call_seq[c] \in written) => OkInits # {}

\* C20 amended: the client keeps no session state and refuses no call:
\* whatever was called before, the send of a request that finds the
\* Transport open enqueues that request for the adapter and waits for the
\* reply, and only the send that finds it closed fails.
C20_EveryCallIsSentWhileOpen ==
    [][\A c \in Calls :
        (pc[c] = "issued" /\ pc'[c] # "issued") =>
            IF closed
            THEN pc'[c] = "done" /\ server_tx' = server_tx
            ELSE /\ pc'[c] = "waiting"
                 /\ server_tx' = Append(server_tx,
                        [seq |-> call_seq[c], command |-> call_cmd[c],
                         arguments |-> call_args[c].arguments,
                         back_ch |-> c])]_vars

\* a launch is on the wire and answered though initialize was never called
C20_Witness ==
    \E c \in Calls :
        /\ call_cmd[c] = "launch"
        /\ call_seq[c] \in written
        /\ result[c].kind = "ok"
        /\ \A d \in Calls : call_cmd[d] # "initialize"

\* the call's request has been handed to the outbound channel
Enqueued(c) ==
    \/ pc[c] = "waiting"
    \/ pc[c] = "done" /\ result[c] # Err("send_closed")

ReadsResponse ==
    /\ Len(wire') = Len(wire) + 1
    /\ wire'[Len(wire')] = "Response"

\* C22: a response that matches no pending request is dropped: the step
\* that reads it resolves no reply channel, puts nothing on the inbound
\* channel or the internal queue, leaves the pending table as it is and
\* leaves the Transport and both loops running as they were; only a
\* response that matches changes a reply channel, and only its caller's.
C22_UnmatchedResponseDropped ==
    [][ReadsResponse =>
        IF resolved' = resolved
        THEN /\ reply_buf' = reply_buf
             /\ pending' = pending
             /\ server_rx' = server_rx /\ client_q' = client_q
             /\ closed' = closed
             /\ recv_loop' = recv_loop /\ events_loop' = events_loop
        ELSE \E seq \in DOMAIN pending :
                /\ resolved' = [resolved EXCEPT ![seq] = @ + 1]
                /\ \A c \in Calls :
                    c # pending[seq] => reply_buf'[c] = reply_buf[c]]_vars

\* a response for a seq that was never issued has been read and dropped
\* while a request is pending, and the forwarding loop has gone on
C22_Witness ==
    /\ Sent({"Response"}) >= 1
    /\ \A seq \in Seqs : resolved[seq] = 0
    /\ rejected = {}
    /\ pending # EmptyMap
    /\ recv_loop = "running"
    /\ handled # <<>>

\* the step reads an ill-formed frame off the wire
ReadsIllFormed ==
    /\ Len(wire') = Len(wire) + 1
    /\ wire'[Len(wire')] = "IllFormed"

\* C23: the step that reads an ill-formed frame leaves the Transport open
\* and fails no pending request: the pending table, the reply channels and
\* the inbound channel stay as they are; and the Transport is torn down
\* only by a step that reads no frame.
C23_IllFormedFrameDropped ==
    [][/\ ReadsIllFormed =>
            /\ closed' = closed
            /\ pending' = pending
            /\ reply_buf' = reply_buf
            /\ server_rx' = server_rx
            /\ recv_loop' = recv_loop
       /\ (closed' /\ ~closed) => wire' = wire]_vars

\* after an ill-formed frame, an event has been dispatched and the response
\* to the pending request has reached its caller
C23_Witness ==
    \E i, j, k \in DOMAIN wire :
        /\ i < j /\ i < k
        /\ wire[i] = "IllFormed"
        /\ wire[j] = "Event" /\ j \in Range(handled)
        /\ wire[k] = "Response"
        /\ pc[1] = "done" /\ result[1] = Ok("unit")

\* the calls of request that got past the serialization of their arguments
Serialized == {c \in Calls : pc[c] # "idle" /\ result[c] # Err("serialize")}

\* C24: a call of request whose arguments failed to serialize has taken no
\* seq from the counter, has put nothing on the outbound channel and has no
\* reply channel registered: the counter and the seqs handed out account
\* for the other calls only.
C24_SerializeFailureBeforeIO ==
    /\ \A c \in Calls :
        result[c] = Err("serialize") =>
            /\ pc[c] = "done"
            /\ call_seq[c] = 0
            /\ reply_buf[c] = <<>>
            /\ \A seq \in DOMAIN pending : pending[seq] # c
            /\ \A i \in DOMAIN server_tx : server_tx[i].back_ch # c
    /\ request_count = 1 + Cardinality(Serialized)
    /\ Len(issued) = Cardinality(Serialized)

\* the first call failed on its arguments and the next one got seq 1 and
\* is on the wire
C24_Witness ==
    \E c, d \in Calls :
        /\ c < d
        /\ result[c] = Err("serialize")
        /\ call_seq[d] = 1
        /\ call_seq[d] \in written

\* C25 as stated: a call of request that has returned has taken a response
\* from its reply channel, or found the channel dropped, or failed to
\* enqueue.
C25_ReturnsOnThreeEvents ==
    \A c \in Calls :
        pc[c] = "done" =>
            \/ got[c] # NoResponse
            \/ result[c] = Err("recv_closed")
            \/ result[c] = Err("send_closed")

\* C25 amended: the step in which a call of request returns is one of
\* four: the arguments failed to serialize (before anything was sent), the
\* enqueue found the Transport closed, the reply channel held a response
\* to this request, or the reply channel was empty and the Transport torn
\* down; so a call that waits on an open Transport with no response stays
\* pending.
C25_ReturnsOnFourEvents ==
    [][\A c \in Calls :
        (pc'[c] = "done" /\ pc[c] # "done") =>
            CASE pc[c] = "idle" -> result'[c] = Err("serialize")
              [] pc[c] = "issued" -> closed /\ result'[c] = Err("send_closed")
              [] OTHER ->
                    IF reply_buf[c] # <<>>
                    THEN got'[c].request_seq = call_seq[c]
                    ELSE closed /\ result'[c] = Err("recv_closed")]_vars

\* the first request is on the wire, unanswered and still waited for on an
\* open Transport, while a request issued after it has completed
C25_Witness ==
    \E c, d \in Calls :
        /\ c < d
        /\ pc[c] = "waiting" /\ call_seq[c] \in written
        /\ resolved[call_seq[c]] = 0 /\ ~closed
        /\ pc[d] = "done" /\ result[d] = Ok("unit")

\* C26: every Event the Transport has put on its inbound channel is
\* eventually passed to the event handler, unless the application context
\* is dropped.
C26_EventsEventuallyHandled ==
    \A id \in 1..MaxForwards :
        (\E i \in DOMAIN server_rx :
            server_rx[i].id = id /\ server_rx[i].kind = "Event")
        ~> (id \in Range(handled) \/ ~app_alive)

\* the inbound channel has closed and both loops have ended with the
\* application alive, after every event the adapter sent was dispatched
C26_Witness ==
    /\ closed /\ app_alive
    /\ recv_loop = "ended" /\ events_loop = "ended"
    /\ Len(handled) >= 2
    /\ \A i \in DOMAIN wire : wire[i] = "Event" => i \in Range(handled)

\* C27: once the inbound channel has closed the forwarding loop ends, and
\* once the forwarding loop has ended the dispatch loop ends; a loop that
\* has ended stays ended, neither loop panics, and thread_state_by_id on
\* an id with an entry does not fault, before or after.
C27_LoopsEndSilently ==
    /\ closed ~> (recv_loop # "running")
    /\ (recv_loop # "running") ~> (events_loop # "running")
    /\ [][/\ recv_loop # "running" => recv_loop' = recv_loop
          /\ events_loop # "running" => events_loop' = events_loop]_vars
    /\ [](/\ recv_loop # "panicked" /\ events_loop # "panicked"
          /\ (last.op = "thread_state_by_id" /\ last.known) => ~faulted)

\* both loops have ended and the accessor still returns the entry
C27_Witness ==
    /\ closed
    /\ recv_loop = "ended" /\ events_loop = "ended"
    /\ last.op = "thread_state_by_id"
    /\ ~faulted
    /\ last.ret = FetchedThreadState

\* C28: in TCP mode the steps of new come in one order: the spawn is
\* entered from the port choice (from get_port when no port is configured),
\* the timer starts with the step that spawns the adapter, the connect is
\* entered from the timer when a delay is configured and from the spawn
\* otherwise, it is attempted with a port and a spawned adapter, and once
\* it has been attempted new goes on or returns and never comes back to an
\* earlier step.
C28_TcpStepsInOrder ==
    [][connection.kind = "tcp" =>
        /\ (new_pc' = "spawn" /\ new_pc # "spawn") =>
                /\ new_pc = IF connection.port = "none" THEN "get_port"
                            ELSE "start"
                /\ process = "none"
        /\ (new_pc' = "timer" /\ new_pc # "timer") =>
                /\ connection.delay
                /\ process = "none" /\ process' = "running"
        /\ (new_pc' = "connect" /\ new_pc # "connect") =>
                /\ new_pc = IF connection.delay THEN "timer" ELSE "spawn"
                /\ process' # "none"
        /\ (new_pc = "connect" /\ new_pc' # "connect") =>
                IF port = "none" THEN new_pc' = "panicked"
                ELSE new_pc' \in {"transport", "returned"}
        /\ new_pc \in {"transport", "returned", "panicked"} =>
                new_pc' \in {"transport", "returned", "panicked"}]_vars

\* with no port configured and a delay configured, an ephemeral port was
\* allocated, the adapter spawned, the delay waited and the connect made
C28_Witness ==
    /\ connection = [kind |-> "tcp", port |-> "none", delay |-> TRUE]
    /\ port = "ephemeral"
    /\ process = "running"
    /\ new_pc = "transport"

\* the task waits in lock() for the lock it holds itself
SelfBlocked(t) == guard = t /\ calling[t] # NoCall

C30_GuardExclusiveSnapshotWhole ==
    [][/\ guard # 0 /\ guard' # guard => guard' = 0
       /\ guard # 0 /\ thread_states' # thread_states
            => calling[guard] = NoCall /\ guard' = guard
       /\ thread_states' # thread_states => snap' = snap
       /\ \A t \in Tasks :
            snap'[t] # snap[t]
                => /\ calling[t].op = "thread_state_by_id"
                   /\ guard = 0
                   /\ snap'[t] = thread_states[calling[t].id]
                   /\ ~HalfApplied(snap'[t])]_vars

\* a task holds the guard in the middle of its batch, another task waits
\* in thread_state_by_id and still has the copy it took before the batch
C30_Witness ==
    \E t, u \in Tasks :
        /\ guard = t
        /\ 1 \in DOMAIN thread_states
        /\ HalfApplied(thread_states[1])
        /\ calling[u].op = "thread_state_by_id"
        /\ snap[u] = DefaultThreadState

\* C31: update_thread_state_status on an id that has an entry sets that
\* entry's status to the status passed, whichever of the four it is and
\* whatever the status was before; the entry's stack frames, scopes,
\* variables and current stack frame id, the entries of all other threads,
\* the set of ids in the cache and the capability snapshot stay as they
\* were.
C31_UpdateSetsOnlyStatus ==
    [][(last'.op = "update_thread_state_status" /\ last'.known) =>
        /\ DOMAIN thread_states' = DOMAIN thread_states
        /\ thread_states'[last'.id] =
                [thread_states[last'.id] EXCEPT !.status = last'.status]
        /\ \A t \in DOMAIN thread_states \ {last'.id} :
                thread_states'[t] = thread_states[t]
        /\ capabilities' = capabilities
        /\ \A st \in ThreadStatus :
                update_thread_state_status(thread_states, last'.id,
                                           st)[last'.id].status = st]_vars

\* an entry with fetched frames has been set back to Running and kept its
\* frames and its focus, next to another thread's entry that is Ended
C31_Witness ==
    /\ last.op = "update_thread_state_status"
    /\ last.known
    /\ last.status = "Running"
    /\ thread_states[last.id].stack_frames = <<1>>
    /\ thread_states[last.id].current_stack_frame_id = 1
    /\ \E t \in DOMAIN thread_states \ {last.id} :
            thread_states[t].status = "Ended"

\* the request the client has just handed to the Transport
Enqueuing(c) == pc[c] = "issued" /\ pc'[c] = "waiting"

CapabilitiesOf(snapshot) == IF snapshot = NoCaps THEN DefaultCaps ELSE snapshot

\* C33: a step in which an initialize call returns an error (the response
\* said failure, its body did not deserialize, the reply channel was closed
\* without a response, or the request could not be enqueued) leaves the
\* capability snapshot as it was, so capabilities() returns after the call
\* what it returned before.
C33_FailedInitializeKeepsSnapshot ==
    [][\A c \in Calls :
        (/\ call_cmd[c] = "initialize"
         /\ pc[c] # "done" /\ pc'[c] = "done"
         /\ result'[c].kind = "err") =>
            /\ result'[c].value \in {"request_failed", "deserialize",
                                     "recv_closed", "send_closed"}
            /\ capabilities' = capabilities
            /\ caps_writes' = caps_writes
            /\ CapabilitiesOf(capabilities') = CapabilitiesOf(capabilities)]_vars

\* an initialize stored non-default capabilities, a later initialize failed
\* on a body that does not deserialize, and the snapshot is still the first
C33_Witness ==
    \E c, d \in Calls :
        /\ c < d
        /\ c \in OkInits
        /\ result[c].value = StepBackCaps
        /\ call_cmd[d] = "initialize"
        /\ result[d] = Err("deserialize")
        /\ capabilities = StepBackCaps

\* commands whose response type is the unit type
UnitCommands == {"launch", "attach", "next", "configuration_done"}

\* C34: when request takes a response with success true and no body off the
\* reply channel, it returns Ok(()) for a command whose response is the unit
\* type and the deserialization error for initialize, whose response is a
\* structure that null does not provide.
C34_AbsentBodyIsNull ==
    [][\A c \in Calls :
        (/\ pc[c] = "waiting" /\ pc'[c] = "done"
         /\ reply_buf[c] # <<>>
         /\ Head(reply_buf[c]).success
         /\ Head(reply_buf[c]).body = "absent") =>
            /\ call_cmd[c] \in UnitCommands => result'[c] = Ok("unit")
            /\ call_cmd[c] = "initialize" => result'[c] = Err("deserialize")
            /\ call_cmd[c] = "initialize" => capabilities' = capabilities]_vars

\* a launch and an initialize were both answered with success and no body:
\* the launch returned Ok, the initialize an error
C34_Witness ==
    \E c, d \in Calls :
        /\ call_cmd[c] = "launch" /\ result[c] = Ok("unit")
        /\ call_cmd[d] = "initialize" /\ result[d] = Err("deserialize")
        /\ got[c].success /\ got[d].success

\* the unmerged pairs of the table in git-status's output section
UnmergedPairs ==
    {<<"D", "D">>, <<"A", "U">>, <<"U", "D">>, <<"U", "A">>, <<"D", "U">>,
     <<"A", "A">>, <<"U", "U">>}

\* the per-head code the table gives a byte of an unmerged pair
HeadCode(byte) ==
    CASE byte = "A" -> "Added"
      [] byte = "D" -> "Deleted"
      [] OTHER -> "Updated"

\* the code the table gives a byte of a tracked pair
TrackedBytes == {"M", "T", "A", "D", "R", "C", " "}
TrackedCode(byte) ==
    CASE byte = "M" -> "Modified"
      [] byte = "T" -> "TypeChanged"
      [] byte = "A" -> "Added"
      [] byte = "D" -> "Deleted"
      [] byte = "R" -> "Renamed"
      [] byte = "C" -> "Copied"
      [] OTHER -> "Unmodified"

\* C35: once a pair is parsed, the result is what the table of git-status
\* documents for it: '??' untracked, '!!' ignored, an unmerged pair the
\* per-head codes of its two bytes (DD deleted on both heads, AA added on
\* both), any other pair of tracked bytes the index/worktree pair, and any
\* other pair an error.
C35_FromBytesFollowsTable ==
    file_status # NotParsed =>
        IF bytes = <<"?", "?">> THEN file_status = Ok(Untracked)
        ELSE IF bytes = <<"!", "!">> THEN file_status = Ok(Ignored)
        ELSE IF bytes \in UnmergedPairs
        THEN file_status = Ok(Unmerged(HeadCode(bytes[1]), HeadCode(bytes[2])))
        ELSE IF bytes[1] \in TrackedBytes /\ bytes[2] \in TrackedBytes
        THEN file_status = Ok(Tracked(TrackedCode(bytes[1]),
                                      TrackedCode(bytes[2])))
        ELSE file_status.kind = "err"

====
